---- MODULE Spec2Model ----
(***************************************************************************)
(* A model of the IHC case scrapers: scraper.py (FastIHCScraper, the       *)
(* parallel variant, get_date_range, save_results, main) and               *)
(* scraper_testing.py (scrape_ihc_cases, extract_case_details).            *)
(*                                                                         *)
(* The browser and the portal are the environment: every webdriver call    *)
(* that can raise is a nondeterministic choice between its normal outcome  *)
(* and an exception.                                                       *)
(***************************************************************************)
EXTENDS Integers, Sequences, FiniteSets, TLC

VARIABLES
    \* ---- get_date_range (scraper.py 588-600)
    dr_mode,        \* the mode argument: "single" or "range"
    dr_start,       \* start_date_str, a DD/MM/YYYY string
    dr_now,         \* what datetime.now() returns during the call
    dr_pos,         \* position in get_date_range: "call", "loop", "done"
    current,        \* the local current
    end_date,       \* the local end_date
    date_list,      \* the local date_list (the value returned at "done")
    \* ---- FastIHCScraper.scrape_single_date_fast, one call per task
    \*      (scraper.py 405-470); task i is the call made for dates[i]
    dates,          \* the date_list the calls are made for
    max_cases,      \* the argument max_cases_per_date (0: None)
    task,           \* per call: its position and its locals
    browser,        \* per call: the browser instance it opened
    portal,         \* per call: the result pages the portal holds for its date
    faultsLeft,     \* per call: page extractions that may still raise
    hist,           \* per call: what it has done so far (history)
    \* ---- FastIHCScraper.scrape_parallel_fast (scraper.py 491-517)
    ppc,            \* position: "idle", "submit", "collect", "done"
    max_workers,    \* the size of the worker pool
    submitted,      \* number of calls handed to the executor
    order,          \* the calls in the order as_completed yielded them
    all_cases,      \* the local all_cases, the results list
    completed_dates,\* the local completed_dates
    results_lock,   \* self.results_lock: "free" or "held"
    self_all_cases, \* self.all_cases
    \* ---- main and save_results (scraper.py 602-696)
    mpos,           \* position in main
    config,         \* what get_user_input returned
    confirm,        \* the answer to "Proceed ...? (y/n)"
    m_cases,        \* main's all_cases, the accumulated records
    files,          \* the output files written, as a set of their contents
    m_result,       \* how main ended
    \* ---- scrape_ihc_cases (scraper_testing.py 219-367)
    tpc,            \* position in scrape_ihc_cases
    tbrowser,       \* the browser instance it opened
    t_n,            \* len(rows), the rows found in the results table
    t_all_cases,    \* the local all_cases
    t_files,        \* the files written: [name, data]
    t_exc,          \* an exception is propagating out of the function
    t_ret,          \* the value returned
    \* ---- extract_advocate_info_fast (scraper.py 133-196)
    apc,            \* position in extract_advocate_info_fast
    awin,           \* the windows of the browser and the driver's focus
    a_source,       \* what the page source read at line 150 holds
    a_adv,          \* case_data["Details"]["Advocates"]
    \* ---- one call of a row or page extractor on given rows
    r_pc,           \* "fast", "testing": to be called; "done"; "idle"
    r_rows,         \* the rows of tblCases handed to the extractor
    r_args,         \* starting_sr, max_cases_per_page
    r_out           \* the records returned

dateVars == <<dr_mode, dr_start, dr_now, dr_pos, current, end_date, date_list>>
taskVars == <<dates, max_cases, task, browser, portal, faultsLeft, hist>>
poolVars == <<ppc, max_workers, submitted, order, all_cases, completed_dates,
              results_lock, self_all_cases>>

mainVars == <<mpos, config, confirm, m_cases, files, m_result>>

testVars == <<tpc, tbrowser, t_n, t_all_cases, t_files, t_exc, t_ret>>

advVars == <<apc, awin, a_source, a_adv>>

rowVars == <<r_pc, r_rows, r_args, r_out>>

unitVars == <<advVars, rowVars>>

vars == <<dateVars, taskVars, poolVars, mainVars, testVars, unitVars>>

\* what the steps of each component leave alone
notDateVars == <<taskVars, poolVars, mainVars, testVars, unitVars>>
notTaskVars == <<dateVars, poolVars, mainVars, testVars, unitVars>>
notPoolVars == <<dateVars, mainVars, testVars, unitVars>>
notTestVars == <<dateVars, taskVars, poolVars, mainVars, unitVars>>

NONE == "None"

(***************************************************************************)
(* Bounds of the model.                                                    *)
(***************************************************************************)
YearLo == 2023
YearHi == 2024
MaxSpan == 3

(***************************************************************************)
(* Calendar dates.  A datetime is [y, m, d, t]: t = 0 is midnight, t = 1   *)
(* any later time of that day.  A date string is the sequence of its       *)
(* fields and separators, <<dd, sep, mm, sep, yyyy>>.                      *)
(***************************************************************************)
IsLeap(y) == (y % 4 = 0 /\ y % 100 # 0) \/ y % 400 = 0

DaysInMonth(y, m) ==
    IF m = 2 THEN (IF IsLeap(y) THEN 29 ELSE 28)
    ELSE IF m \in {4, 6, 9, 11} THEN 30 ELSE 31

ValidDate(y, m, d) == m \in 1..12 /\ d \in 1..DaysInMonth(y, m)

\* datetime.strptime(s, "%d/%m/%Y") raises ValueError unless s is a well-formed
\* string of a calendar day
StrptimeOk(s) ==
    /\ Len(s) = 5 /\ s[2] = "/" /\ s[4] = "/"
    /\ ValidDate(s[5], s[3], s[1])

\* datetime.strptime(s, "%d/%m/%Y"): the fields of the string, at midnight
Strptime(s) == [y |-> s[5], m |-> s[3], d |-> s[1], t |-> 0]

\* the value of a datetime local that is not yet assigned
NoDt == [y |-> 0, m |-> 0, d |-> 0, t |-> 0]

\* dt.strftime("%d-%m-%Y")
Strftime(dt) == <<dt.d, "-", dt.m, "-", dt.y>>

\* dt + timedelta(days=1): the time of day is kept
AddDay(dt) ==
    IF dt.d < DaysInMonth(dt.y, dt.m) THEN [dt EXCEPT !.d = dt.d + 1]
    ELSE IF dt.m < 12 THEN [dt EXCEPT !.d = 1, !.m = dt.m + 1]
    ELSE [dt EXCEPT !.d = 1, !.m = 1, !.y = dt.y + 1]

\* a <= b on datetimes
DtLe(a, b) ==
    \/ a.y < b.y
    \/ a.y = b.y /\ a.m < b.m
    \/ a.y = b.y /\ a.m = b.m /\ a.d < b.d
    \/ a.y = b.y /\ a.m = b.m /\ a.d = b.d /\ a.t <= b.t

DtLt(a, b) == DtLe(a, b) /\ a # b

\* the condition of the while loop, scraper.py 597
LoopCondStrict(c, e) == DtLt(c, e)

LoopCond(c, e) == DtLe(c, e)

(***************************************************************************)
(* The portal.  For one date it holds n result pages; a page is the        *)
(* sequence of its table rows, each of a kind:                             *)
(*   "ok"       a data row extract_table_row_data_fast returns a record for*)
(*   "none"     a data row it returns None for (no case number located, or *)
(*              its extraction raised)                                     *)
(*   "filtered" a row with fewer than 3 cells or a header-like first cell, *)
(*              which extract_cases_from_page_fast drops (374-378)         *)
(***************************************************************************)
RowKinds == {"ok", "none", "filtered"}

MaxRows == 2
MaxSmallPages == 3
MaxCasesArg == 3
MaxPageFaults == 1
NumDates == 2
MaxWorkers == 2

\* program constants
MaxPageLimit == 50
MainMaxCases == 20
NavSteps == 6

RowPatterns == UNION { [1..k -> RowKinds] : k \in 0..MaxRows }

RECURSIVE Reverse(_)
Reverse(s) == IF s = <<>> THEN <<>> ELSE Append(Reverse(Tail(s)), Head(s))

\* the kinds of the rows of result page p
PageKinds(po, p) == IF p % 2 = 1 THEN po.odd ELSE po.even

SmallPortals ==
    { [n |-> n, odd |-> r, even |-> Reverse(r)] :
        n \in 1..MaxSmallPages, r \in RowPatterns }

BigPortals ==
    { [n |-> n, odd |-> <<"ok">>, even |-> <<"ok">>] :
        n \in (MaxPageLimit - 1)..(MaxPageLimit + 1) }

Tasks == 1..Len(dates)

Min(a, b) == IF a <= b THEN a ELSE b
Max(a, b) == IF a >= b THEN a ELSE b

(***************************************************************************)
(* A table row as extract_table_row_data_fast (scraper.py 198-358) sees    *)
(* it: the number of its cells and what the patterns find in the text of   *)
(* its cells ("" and <<>>: nothing found).                                 *)
(*   caseno   the match of case_no_pattern (250, 259)                      *)
(*   title    the cleaned text of the first cell matching title_vs_pattern *)
(*   bench    the names parse_bench_names_fast returns (111-131)           *)
(*   hearing  the date parse_hearing_date finds (91-109)                   *)
(*   status   the match of status_pattern (253), as written in the cell    *)
(*   raises   a webdriver call on the row raises                           *)
(*   src      the place of the row in the portal, <<page, index>>          *)
(***************************************************************************)
NA == "N/A"

\* str.title() on the words status_pattern matches
TitleCase(w) ==
    CASE w = "pending" -> "Pending"
      [] w = "decided" -> "Decided"
      [] w = "DISPOSED" -> "Disposed"
      [] OTHER -> w

\* 209-247: case_data with its defaults
DefaultCase(sr, inst_date) ==
    [Sr |-> sr, Institution_Date |-> inst_date, Case_No |-> NA,
     Case_Title |-> NA, Bench |-> <<>>, Hearing_Date |-> NA,
     Case_Category |-> NA, Status |-> NA, Orders |-> <<>>, Comments |-> <<>>,
     CMs |-> <<>>,
     Details |-> [Case_No |-> NA, Case_Status |-> NA, Hearing_Date |-> NA,
                  Before_Bench |-> <<>>, Case_Title |-> NA],
     src |-> <<0, 0>>]

\* 314-324, 326-335, 337-346: the default orders, comments and CMs entries
DefaultOrders(c) ==
    <<[Sr |-> 1, Hearing_Date |-> c.Hearing_Date, Bench |-> c.Bench,
       Short_Order |-> c.Status]>>

DefaultComments(c) ==
    <<[Case_No |-> c.Case_No, Case_Title |-> c.Case_Title,
       Description |-> "No comments available"]>>

DefaultCMs == <<[Sr |-> 1, Description |-> "No CMs available"]>>

\* 258-308: the fields located in the row
FastFields(row, c) ==
    [c EXCEPT
       !.Case_No = IF row.caseno # "" THEN row.caseno ELSE @,
       !.Details.Case_No = IF row.caseno # "" THEN row.caseno ELSE @,
       !.Case_Title = IF row.title # "" THEN row.title ELSE @,
       !.Details.Case_Title = IF row.title # "" THEN row.title ELSE @,
       !.Bench = IF row.bench # <<>> THEN row.bench ELSE @,
       !.Details.Before_Bench = IF row.bench # <<>> THEN row.bench ELSE @,
       !.Hearing_Date = IF row.hearing # "" THEN row.hearing ELSE @,
       !.Details.Hearing_Date = IF row.hearing # "" THEN row.hearing ELSE @,
       !.Status = IF row.status # "" THEN TitleCase(row.status) ELSE @,
       !.Details.Case_Status = IF row.status # "" THEN TitleCase(row.status) ELSE @,
       !.src = row.src]

extract_table_row_data_keep(row, sr_number, date) ==
    IF row.raises THEN <<>>
    ELSE IF row.ncells < 3 THEN <<>>
    ELSE LET c == FastFields(row, DefaultCase(sr_number, date))
         IN <<[c EXCEPT !.Orders = DefaultOrders(c),
                        !.Comments = DefaultComments(c),
                        !.CMs = DefaultCMs]>>

\* extract_table_row_data_fast: <<>> for None, else <<case_data>>
extract_table_row_data_fast(row, sr_number, date) ==
    IF row.raises THEN <<>>                              \* 356-358
    ELSE IF row.ncells < 3 THEN <<>>                     \* 201-203
    ELSE LET c == FastFields(row, DefaultCase(sr_number, date))
         IN IF c.Case_No = NA THEN <<>>                  \* 310-312
            ELSE <<[c EXCEPT !.Orders = DefaultOrders(c),
                             !.Comments = DefaultComments(c),
                             !.CMs = DefaultCMs]>>

\* the row of each kind in the result pages of the model
KindRow(kind, src) ==
    [ncells |-> IF kind = "filtered" THEN 2 ELSE 3,
     header |-> FALSE,
     caseno |-> IF kind = "ok" THEN "W.P. 1/2020" ELSE "",
     title |-> "A VS B",
     bench |-> <<"Honourable Mr. Justice A">>,
     hearing |-> "01-01-2020",
     status |-> "pending",
     raises |-> FALSE,
     src |-> src]

\* the rows of result page p
PageRows(po, p) ==
    [j \in 1..Len(PageKinds(po, p)) |-> KindRow(PageKinds(po, p)[j], <<p, j>>)]

(***************************************************************************)
(* extract_cases_from_page_fast (scraper.py 360-403), after the table was  *)
(* found: the records of one page.                                         *)
(***************************************************************************)
\* the rows kept as data_rows (371-378): at least 3 cells and a first cell
\* that does not read like a header
IsDataRow(row) == row.ncells >= 3 /\ ~row.header

RECURSIVE DataRows(_, _)
DataRows(rows, j) ==
    IF j > Len(rows) THEN <<>>
    ELSE IF IsDataRow(rows[j]) THEN <<j>> \o DataRows(rows, j + 1)
    ELSE DataRows(rows, j + 1)

\* seq[:n] of Python
PySlice(seq, n) ==
    IF n >= 0 THEN SubSeq(seq, 1, Min(n, Len(seq)))
    ELSE SubSeq(seq, 1, Max(Len(seq) + n, 0))

\* rows_to_process (381): a limit of 0 or None is no limit
RowsToProcess(data_rows, max_cases_per_page) ==
    IF max_cases_per_page # 0 THEN PySlice(data_rows, max_cases_per_page)
    ELSE data_rows

RECURSIVE ProcessRowsAbort(_, _, _, _, _)
ProcessRowsAbort(rows, todo, i, starting_sr, date) ==
    IF i >= Len(todo) THEN <<>>
    ELSE LET row == rows[todo[i + 1]]
             case_data == extract_table_row_data_fast(row, starting_sr + i, date)
         IN IF case_data = <<>> THEN <<>>
            ELSE case_data \o ProcessRowsAbort(rows, todo, i + 1, starting_sr, date)

\* the loop over rows_to_process (384-396): i counts from 0
RECURSIVE ProcessRows(_, _, _, _, _)
ProcessRows(rows, todo, i, starting_sr, date) ==
    IF i >= Len(todo) THEN <<>>
    ELSE LET row == rows[todo[i + 1]]
             sr_number == starting_sr + i
             case_data == extract_table_row_data_fast(row, sr_number, date)
         IN case_data \o ProcessRows(rows, todo, i + 1, starting_sr, date)

extract_cases_from_page_fast(rows, date, starting_sr, max_cases_per_page) ==
    ProcessRows(rows, RowsToProcess(DataRows(rows, 1), max_cases_per_page),
                0, starting_sr, date)

(***************************************************************************)
(* scrape_single_date_fast (scraper.py 405-470).  Positions of a call:     *)
(*   "new"      not yet handed to the executor                             *)
(*   "queued"   handed to the executor, not started                        *)
(*   "setup"    in setup_webdriver, before webdriver.Chrome(...) (74)      *)
(*   "setup2"   in setup_webdriver, after it, before 75-76                 *)
(*   "nav"      in the navigation steps 417-436                            *)
(*   "extract"  at the top of the while loop (441)                         *)
(*   "next"     at has_next_page_fast (455)                                *)
(*   "finally"  the return value is set, the finally clause is to run      *)
(*   "returned" the call has returned ret                                  *)
(*   "raised"   the call has ended with an exception                       *)
(* The navigation steps, counted in browser.nav: 1 driver.get (417),       *)
(* 2 advanced search clicked (421-422), 3 date entered (425-427),          *)
(* 4 search clicked (430-431), 5 grdCaseInfo visible (435),                *)
(* 6 tblCases visible (436).                                               *)
(***************************************************************************)
NewTask ==
    [pc |-> "new", driver |-> FALSE, cases |-> <<>>, page |-> 0,
     total_cases_count |-> 0, ret |-> <<>>, stop |-> NONE, logged |-> FALSE]

NoBrowser == [state |-> "none", nav |-> 0, shown |-> 0]

NoHist == [visited |-> <<>>, failed |-> {}, runs |-> 0, leaked |-> FALSE]

Finished == {"returned", "raised"}

\* the except clause (465-467) for an exception raised in the try block:
\* log it and return []
OnRaisePropagate(tk) ==
    [tk EXCEPT !.pc = "raised", !.stop = "error"]

OnRaiseSkipToExtract(tk) ==
    [tk EXCEPT !.pc = "extract", !.stop = "error"]

OnRaise(tk) ==
    [tk EXCEPT !.pc = "finally", !.ret = <<>>, !.stop = "error", !.logged = TRUE]

\* 459: if page > 50
PageCapNever(p) == FALSE

PageCapReachedEarly(p) == p >= MaxPageLimit

PageCapReached(p) == p > MaxPageLimit

\* 451: if max_cases_per_date and total_cases_count >= max_cases_per_date
LimitReachedLate(total) == max_cases # 0 /\ total > max_cases

LimitReached(total) == max_cases # 0 /\ total >= max_cases

\* 444: the limit passed to extract_cases_from_page_fast
PageLimit(total) == IF max_cases # 0 THEN max_cases - total ELSE 0

\* setup_webdriver 73-74: webdriver.Chrome(...) starts a browser
SetupChrome(t) ==
    /\ task[t].pc = "setup"
    /\ task' = [task EXCEPT ![t].pc = "setup2"]
    /\ browser' = [browser EXCEPT ![t].state = "open"]
    /\ UNCHANGED <<dates, max_cases, portal, faultsLeft, hist>>
    /\ UNCHANGED notTaskVars

\* setup_webdriver 73-74 raise: no browser was started; 79-81 log and re-raise
SetupChromeRaise(t) ==
    /\ task[t].pc = "setup"
    /\ task' = [task EXCEPT ![t] = OnRaise(@)]
    /\ UNCHANGED <<dates, max_cases, browser, portal, faultsLeft, hist>>
    /\ UNCHANGED notTaskVars

\* setup_webdriver 75-78: the timeouts are set and the driver is returned;
\* 409-414
SetupTimeouts(t) ==
    /\ task[t].pc = "setup2"
    /\ task' = [task EXCEPT ![t].pc = "nav", ![t].driver = TRUE,
                            ![t].cases = <<>>, ![t].page = 1,
                            ![t].total_cases_count = 0]
    /\ UNCHANGED <<dates, max_cases, browser, portal, faultsLeft, hist>>
    /\ UNCHANGED notTaskVars

\* setup_webdriver 75-76 raise: 79-81 re-raise, the started browser is held by
\* no variable of scrape_single_date_fast (driver is still None)
SetupTimeoutsRaise(t) ==
    /\ task[t].pc = "setup2"
    /\ task' = [task EXCEPT ![t] = OnRaise(@)]
    /\ hist' = [hist EXCEPT ![t].leaked = TRUE]
    /\ UNCHANGED <<dates, max_cases, browser, portal, faultsLeft>>
    /\ UNCHANGED notTaskVars

\* 417-437: the next navigation step succeeds
NavStep(t) ==
    /\ task[t].pc = "nav"
    /\ browser[t].nav < NavSteps
    /\ browser' = [browser EXCEPT ![t].nav = @ + 1,
                      ![t].shown = IF browser[t].nav + 1 >= 4 THEN 1 ELSE 0]
    /\ task' = [task EXCEPT ![t].pc =
                   IF browser[t].nav + 1 = NavSteps THEN "extract" ELSE "nav"]
    /\ UNCHANGED <<dates, max_cases, portal, faultsLeft, hist>>
    /\ UNCHANGED notTaskVars

\* 417-437: the next navigation step raises (page load, a wait timing out,
\* a click)
NavRaise(t) ==
    /\ task[t].pc = "nav"
    /\ browser[t].nav < NavSteps
    /\ task' = [task EXCEPT ![t] = OnRaise(@)]
    /\ UNCHANGED <<dates, max_cases, browser, portal, faultsLeft, hist>>
    /\ UNCHANGED notTaskVars

\* 441-453 with the records page_cases of this page
AfterPage(tk, page_cases) ==
    LET total == tk.total_cases_count + Len(page_cases)
        cs == tk.cases \o page_cases
    IN IF LimitReached(total)
       THEN [tk EXCEPT !.cases = cs, !.total_cases_count = total,
                       !.pc = "finally", !.ret = cs, !.stop = "limit"]
       ELSE [tk EXCEPT !.cases = cs, !.total_cases_count = total,
                       !.pc = "next"]

\* 441-453: extract_cases_from_page_fast finds the table and processes the
\* rows of the page the browser shows
ExtractPage(t) ==
    /\ task[t].pc = "extract"
    /\ LET tk == task[t]
           page_cases ==
             extract_cases_from_page_fast(
                 PageRows(portal[t], browser[t].shown), dates[t],
                 tk.total_cases_count + 1, PageLimit(tk.total_cases_count))
       IN task' = [task EXCEPT ![t] = AfterPage(tk, page_cases)]
    /\ hist' = [hist EXCEPT ![t].visited = Append(@, browser[t].shown)]
    /\ UNCHANGED <<dates, max_cases, browser, portal, faultsLeft>>
    /\ UNCHANGED notTaskVars

\* 441-453: extract_cases_from_page_fast raises before its row loop (the wait
\* for tblCases, find_elements) and returns its empty list (401-403)
ExtractPageRaise(t) ==
    /\ task[t].pc = "extract"
    /\ faultsLeft[t] > 0
    /\ faultsLeft' = [faultsLeft EXCEPT ![t] = @ - 1]
    /\ task' = [task EXCEPT ![t] = AfterPage(@, <<>>)]
    /\ hist' = [hist EXCEPT ![t].visited = Append(@, browser[t].shown),
                            ![t].failed = @ \cup {browser[t].shown}]
    /\ UNCHANGED <<dates, max_cases, browser, portal>>
    /\ UNCHANGED notTaskVars

\* 455-460 after has_next_page_fast returned True
AfterNext(tk) ==
    IF PageCapReached(tk.page + 1)
    THEN [tk EXCEPT !.page = @ + 1, !.pc = "finally", !.ret = tk.cases,
                    !.stop = "cap"]
    ELSE [tk EXCEPT !.page = @ + 1, !.pc = "extract"]

\* the class of the next control contains 'disabled' (479-481): the browser
\* shows the last page
NextDisabledNever(t) == FALSE

NextDisabled(t) == browser[t].shown >= portal[t].n

\* has_next_page_fast 481-482 returns False; 455-456, 462-463
HasNextDisabled(t) ==
    /\ task[t].pc = "next"
    /\ NextDisabled(t)
    /\ task' = [task EXCEPT ![t].pc = "finally", ![t].ret = task[t].cases,
                            ![t].stop = "disabled"]
    /\ UNCHANGED <<dates, max_cases, browser, portal, faultsLeft, hist>>
    /\ UNCHANGED notTaskVars

\* has_next_page_fast 483-486 clicks the next control and returns True;
\* 458-460
HasNextClick(t) ==
    /\ task[t].pc = "next"
    /\ ~NextDisabled(t)
    /\ browser' = [browser EXCEPT ![t].shown = @ + 1]
    /\ task' = [task EXCEPT ![t] = AfterNext(@)]
    /\ UNCHANGED <<dates, max_cases, portal, faultsLeft, hist>>
    /\ UNCHANGED notTaskVars

\* has_next_page_fast 488-489: the pagination area or the next control is not
\* found, or the click raises: False; 455-456, 462-463
HasNextRaise(t) ==
    /\ task[t].pc = "next"
    /\ task' = [task EXCEPT ![t].pc = "finally", ![t].ret = task[t].cases,
                            ![t].stop = "nextfail"]
    /\ UNCHANGED <<dates, max_cases, browser, portal, faultsLeft, hist>>
    /\ UNCHANGED notTaskVars

\* has_next_page_fast 484, 488-489: execute_script raises although the
\* click took effect in the browser (the answer of the driver is lost or
\* times out): False; 455-456, 462-463
HasNextClickRaise(t) ==
    /\ task[t].pc = "next"
    /\ ~NextDisabled(t)
    /\ browser' = [browser EXCEPT ![t].shown = @ + 1]
    /\ task' = [task EXCEPT ![t].pc = "finally", ![t].ret = task[t].cases,
                            ![t].stop = "nextfail"]
    /\ UNCHANGED <<dates, max_cases, portal, faultsLeft, hist>>
    /\ UNCHANGED notTaskVars

\* the finally clause 468-470, then the return.  driver.quit() of the Chrome
\* driver swallows its own errors.
QuitIfDriver(tk, b) ==
    IF tk.driver THEN [state |-> "quit", nav |-> 0, shown |-> 0] ELSE b

Finally(t) ==
    /\ task[t].pc = "finally"
    /\ browser' = [browser EXCEPT ![t] = QuitIfDriver(task[t], @)]
    /\ task' = [task EXCEPT ![t].pc = "returned"]
    /\ UNCHANGED <<dates, max_cases, portal, faultsLeft, hist>>
    /\ UNCHANGED notTaskVars

IdleTasks ==
    /\ dates = <<>>
    /\ max_cases = 0
    /\ task = <<>>
    /\ browser = <<>>
    /\ portal = <<>>
    /\ faultsLeft = <<>>
    /\ hist = <<>>

\* 35: self.results_lock = threading.Lock(), created unlocked
HeldLock == "held"

NewLock == "free"

IdlePool ==
    /\ ppc = "idle"
    /\ max_workers = 1
    /\ submitted = 0
    /\ order = <<>>
    /\ all_cases = <<>>
    /\ completed_dates = 0
    /\ results_lock = NewLock
    /\ self_all_cases = <<>>

(***************************************************************************)
(* One call of scrape_single_date_fast, as main makes it in single mode    *)
(* (scraper.py 666), for any portal and any limit.                         *)
(***************************************************************************)
InitSingle ==
    /\ dates = <<1>>
    /\ \E po \in SmallPortals \cup BigPortals :
          /\ portal = <<po>>
          /\ max_cases \in IF po \in BigPortals THEN {0, MainMaxCases}
                           ELSE 0..MaxCasesArg
          \* a long portal gets at most one raising call, at any of its
          \* pages; several raising calls are explored on the short portals
          /\ faultsLeft = <<IF po \in BigPortals /\ MaxPageFaults > 1
                             THEN 1 ELSE MaxPageFaults>>
    /\ task = <<[NewTask EXCEPT !.pc = "setup"]>>
    /\ browser = <<NoBrowser>>
    /\ hist = <<[NoHist EXCEPT !.runs = 1]>>

NextSingle ==
    \/ \E t \in Tasks : SetupChrome(t)
    \/ \E t \in Tasks : SetupChromeRaise(t)
    \/ \E t \in Tasks : SetupTimeouts(t)
    \/ \E t \in Tasks : SetupTimeoutsRaise(t)
    \/ \E t \in Tasks : NavStep(t)
    \/ \E t \in Tasks : NavRaise(t)
    \/ \E t \in Tasks : ExtractPage(t)
    \/ \E t \in Tasks : ExtractPageRaise(t)
    \/ \E t \in Tasks : HasNextDisabled(t)
    \/ \E t \in Tasks : HasNextClick(t)
    \/ \E t \in Tasks : HasNextRaise(t)
    \/ \E t \in Tasks : HasNextClickRaise(t)
    \/ \E t \in Tasks : Finally(t)


(***************************************************************************)
(* scrape_parallel_fast (scraper.py 491-517): the calls are handed to a    *)
(* ThreadPoolExecutor of max_workers threads, which run them in the order  *)
(* submitted, at most max_workers at a time; the calling thread collects   *)
(* the results with as_completed.                                          *)
(***************************************************************************)
Running == { t \in Tasks : task[t].pc \notin ({"new", "queued"} \cup Finished) }

Queued == { t \in Tasks : task[t].pc = "queued" }

\* the portal of the date of call t in the parallel runs of the model
ParPortal(t) ==
    IF t = 1 THEN [n |-> 2, odd |-> <<"ok", "none">>, even |-> <<"ok">>]
    ELSE [n |-> 1, odd |-> <<"ok">>, even |-> <<>>]

InitPar ==
    /\ \E n \in 1..NumDates : dates = [i \in 1..n |-> i]
    /\ max_cases = 0
    /\ task = [t \in Tasks |-> NewTask]
    /\ browser = [t \in Tasks |-> NoBrowser]
    /\ portal = [t \in Tasks |-> ParPortal(t)]
    /\ faultsLeft = [t \in Tasks |-> IF t = 1 THEN 1 ELSE 0]
    /\ hist = [t \in Tasks |-> NoHist]
    /\ ppc = "submit"
    /\ max_workers \in 1..MaxWorkers
    /\ submitted = 0
    /\ order = <<>>
    /\ all_cases = <<>>
    /\ completed_dates = 0
    /\ results_lock = NewLock
    /\ self_all_cases = <<>>

\* 502-505: executor.submit for the next date of date_list
Submit ==
    /\ ppc = "submit"
    /\ submitted < Len(dates)
    /\ submitted' = submitted + 1
    /\ task' = [task EXCEPT ![submitted + 1].pc = "queued"]
    /\ UNCHANGED <<ppc, max_workers, order, all_cases, completed_dates,
                   results_lock, self_all_cases>>
    /\ UNCHANGED <<dates, max_cases, browser, portal, faultsLeft, hist>>
    /\ UNCHANGED notPoolVars

\* 505-507: every date is submitted; the as_completed loop begins
SubmitDone ==
    /\ ppc = "submit"
    /\ submitted = Len(dates)
    /\ ppc' = "collect"
    /\ UNCHANGED <<max_workers, submitted, order, all_cases, completed_dates,
                   results_lock, self_all_cases>>
    /\ UNCHANGED taskVars
    /\ UNCHANGED notPoolVars

\* the executor: at most max_workers calls run at a time
WorkerFree == Cardinality(Running) < max_workers

\* a worker thread of the executor takes the oldest queued call and begins
\* scrape_single_date_fast (405-409)
Start(t) ==
    /\ task[t].pc = "queued"
    /\ \A u \in Queued : t <= u
    /\ WorkerFree
    /\ task' = [task EXCEPT ![t].pc = "setup"]
    /\ hist' = [hist EXCEPT ![t].runs = @ + 1]
    /\ UNCHANGED <<dates, max_cases, browser, portal, faultsLeft>>
    /\ UNCHANGED notTaskVars

\* 510-511 for a call that returned cases; 514-515 for one that raised
CollectedLast(acc, tk) ==
    IF tk.pc = "returned" THEN tk.ret ELSE acc

Collected(acc, tk) ==
    IF tk.pc = "returned" THEN acc \o tk.ret ELSE acc

\* 507-515: as_completed yields a finished call not yet yielded
Collect(t) ==
    /\ ppc = "collect"
    /\ task[t].pc \in Finished
    /\ \A i \in 1..Len(order) : order[i] # t
    /\ order' = Append(order, t)
    /\ all_cases' = Collected(all_cases, task[t])
    /\ completed_dates' =
          IF task[t].pc = "returned" THEN completed_dates + 1 ELSE completed_dates
    /\ UNCHANGED <<ppc, max_workers, submitted, results_lock, self_all_cases>>
    /\ UNCHANGED taskVars
    /\ UNCHANGED notPoolVars

\* 507, 517: every call was yielded; the executor is shut down and all_cases
\* is returned
ParReturn ==
    /\ ppc = "collect"
    /\ Len(order) = Len(dates)
    /\ ppc' = "done"
    /\ UNCHANGED <<max_workers, submitted, order, all_cases, completed_dates,
                   results_lock, self_all_cases>>
    /\ UNCHANGED taskVars
    /\ UNCHANGED notPoolVars

NextPar ==
    \/ Submit
    \/ SubmitDone
    \/ \E t \in Tasks : Start(t)
    \/ \E t \in Tasks : SetupChrome(t)
    \/ \E t \in Tasks : SetupChromeRaise(t)
    \/ \E t \in Tasks : SetupTimeouts(t)
    \/ \E t \in Tasks : SetupTimeoutsRaise(t)
    \/ \E t \in Tasks : NavStep(t)
    \/ \E t \in Tasks : NavRaise(t)
    \/ \E t \in Tasks : ExtractPage(t)
    \/ \E t \in Tasks : ExtractPageRaise(t)
    \/ \E t \in Tasks : HasNextDisabled(t)
    \/ \E t \in Tasks : HasNextClick(t)
    \/ \E t \in Tasks : HasNextRaise(t)
    \/ \E t \in Tasks : HasNextClickRaise(t)
    \/ \E t \in Tasks : Finally(t)
    \/ \E t \in Tasks : Collect(t)
    \/ ParReturn


(***************************************************************************)
(* get_date_range, one action per step of the function.                    *)
(***************************************************************************)
\* the month before and the month after month m of year y, as <<y, m>>
PrevMonth(y, m) == IF m = 1 THEN <<y - 1, 12>> ELSE <<y, m - 1>>
NextMonth(y, m) == IF m = 12 THEN <<y + 1, 1>> ELSE <<y, m + 1>>

\* the strings a user may enter as the start date when today is dt: the days
\* of the month of dt and of the months next to it
DateStrings(dt) ==
    { <<d, "/", ym[2], "/", ym[1]>> :
        d \in 1..31,
        ym \in {<<dt.y, dt.m>>, PrevMonth(dt.y, dt.m), NextMonth(dt.y, dt.m)} }

RECURSIVE DaysBeforeMonth(_, _)
DaysBeforeMonth(y, m) ==
    IF m = 1 THEN 0 ELSE DaysBeforeMonth(y, m - 1) + DaysInMonth(y, m - 1)

\* The proleptic Gregorian ordinal of a day (1 = 01/01/0001).
DayNumber(y, m, d) ==
    365 * (y - 1) + ((y - 1) \div 4) - ((y - 1) \div 100) + ((y - 1) \div 400)
    + DaysBeforeMonth(y, m) + d

DayNumberOf(dt) == DayNumber(dt.y, dt.m, dt.d)

InitDates ==
    /\ dr_mode \in {"single", "range"}
    /\ dr_now \in { [y |-> y, m |-> m, d |-> d, t |-> t] :
                      y \in YearLo..YearHi, m \in 1..12, d \in 1..31, t \in 0..1 }
    /\ ValidDate(dr_now.y, dr_now.m, dr_now.d)
    /\ dr_start \in DateStrings(dr_now)
    /\ StrptimeOk(dr_start)
    /\ DayNumberOf(Strptime(dr_start)) \in
          (DayNumberOf(dr_now) - MaxSpan)..(DayNumberOf(dr_now) + 2)
    /\ dr_pos = "call"
    /\ current = NoDt
    /\ end_date = NoDt
    /\ date_list = <<>>

\* scraper.py 589-591: mode == 'single'
GetDateRangeSingle ==
    /\ dr_pos = "call"
    /\ dr_mode = "single"
    /\ date_list' = <<Strftime(Strptime(dr_start))>>
    /\ dr_pos' = "done"
    /\ UNCHANGED <<dr_mode, dr_start, dr_now, current, end_date>>
    /\ UNCHANGED notDateVars

\* scraper.py 593-596
GetDateRangeBegin ==
    /\ dr_pos = "call"
    /\ dr_mode # "single"
    /\ current' = Strptime(dr_start)
    /\ end_date' = dr_now
    /\ date_list' = <<>>
    /\ dr_pos' = "loop"
    /\ UNCHANGED <<dr_mode, dr_start, dr_now>>
    /\ UNCHANGED notDateVars

\* scraper.py 597-599: one iteration of the while loop
GetDateRangeLoop ==
    /\ dr_pos = "loop"
    /\ LoopCond(current, end_date)
    /\ date_list' = Append(date_list, Strftime(current))
    /\ current' = AddDay(current)
    /\ UNCHANGED <<dr_mode, dr_start, dr_now, dr_pos, end_date>>
    /\ UNCHANGED notDateVars

\* scraper.py 597, 600: the loop condition fails and date_list is returned
GetDateRangeReturn ==
    /\ dr_pos = "loop"
    /\ ~LoopCond(current, end_date)
    /\ dr_pos' = "done"
    /\ UNCHANGED <<dr_mode, dr_start, dr_now, current, end_date, date_list>>
    /\ UNCHANGED notDateVars

NextDates ==
    \/ GetDateRangeSingle
    \/ GetDateRangeBegin
    \/ GetDateRangeLoop
    \/ GetDateRangeReturn

InitDatesIdle ==
    /\ dr_mode = "range"
    /\ dr_start = <<>>
    /\ dr_now = NoDt
    /\ dr_pos = "idle"
    /\ current = NoDt
    /\ end_date = NoDt
    /\ date_list = <<>>

(***************************************************************************)
(* main (scraper.py 641-696) with get_user_input (519-586) and             *)
(* save_results (602-639).  Positions of main: "input", "dates" (in        *)
(* get_date_range), "scrape" (in scrape_single_date_fast or                *)
(* scrape_parallel_fast), "save" (in save_results), "done".                *)
(***************************************************************************)
DefaultBatchSize == 30

NoConfig ==
    [mode |-> NONE, single_date |-> <<>>, start_date |-> <<>>,
     max_workers |-> 0, batch_size |-> 0]

\* today, in the runs of main of the model
MainToday == [y |-> 2024, m |-> 3, d |-> 1, t |-> 1]

MainStartDates ==
    { s \in DateStrings(MainToday) :
        /\ StrptimeOk(s)
        /\ DayNumberOf(Strptime(s)) \in
             (DayNumberOf(MainToday) - (NumDates - 1))..(DayNumberOf(MainToday) + 1) }

\* the values get_user_input can return: mode 1 (540-546) and mode 2 (581-586;
\* a range config has no single_date key, it is never read in range mode)
Configs ==
    { [mode |-> "single", single_date |-> s, start_date |-> s,
       max_workers |-> 1, batch_size |-> 1] : s \in MainStartDates }
    \cup
    { [mode |-> "range", single_date |-> s, start_date |-> s,
       max_workers |-> w, batch_size |-> b] :
         s \in MainStartDates, w \in 1..MaxWorkers, b \in {1, DefaultBatchSize} }

InitMain ==
    /\ mpos = "input"
    /\ config = NoConfig
    /\ confirm = NONE
    /\ m_cases = <<>>
    /\ files = {}
    /\ m_result = NONE

IdleMain ==
    /\ mpos = "idle"
    /\ config = NoConfig
    /\ confirm = NONE
    /\ m_cases = <<>>
    /\ files = {}
    /\ m_result = NONE

\* 643-644: get_user_input returns, get_date_range is called
MainInput ==
    /\ mpos = "input"
    /\ config' \in Configs
    /\ mpos' = "dates"
    /\ dr_mode' = config'.mode
    /\ dr_start' = config'.start_date
    /\ dr_now' = MainToday
    /\ dr_pos' = "call"
    /\ UNCHANGED <<current, end_date, date_list>>
    /\ UNCHANGED <<confirm, m_cases, files, m_result>>
    /\ UNCHANGED <<taskVars, poolVars>>
    /\ UNCHANGED <<testVars, unitVars>>

\* 646-660: the user does not answer y
MainDecline ==
    /\ mpos = "dates"
    /\ dr_pos = "done"
    /\ confirm' = "n"
    /\ mpos' = "done"
    /\ m_result' = "declined"
    /\ UNCHANGED <<config, m_cases, files>>
    /\ UNCHANGED <<dateVars, taskVars, poolVars>>
    /\ UNCHANGED <<testVars, unitVars>>

\* 646-666: the user answers y in single mode; FastIHCScraper(...) is built and
\* scrape_single_date_fast(date_list[0], 0, max_cases_per_date=20) is called
MainScrapeSingle ==
    /\ mpos = "dates"
    /\ dr_pos = "done"
    /\ config.mode = "single"
    /\ confirm' = "y"
    /\ mpos' = "scrape"
    /\ dates' = <<date_list[1]>>
    /\ max_cases' = MainMaxCases
    /\ task' = <<[NewTask EXCEPT !.pc = "setup"]>>
    /\ browser' = <<NoBrowser>>
    /\ portal' = <<ParPortal(1)>>
    /\ faultsLeft' = <<1>>
    /\ hist' = <<[NoHist EXCEPT !.runs = 1]>>
    /\ max_workers' = config.max_workers
    /\ UNCHANGED <<ppc, submitted, order, all_cases, completed_dates,
                   results_lock, self_all_cases>>
    /\ UNCHANGED <<config, m_cases, files, m_result>>
    /\ UNCHANGED <<dateVars, testVars, unitVars>>

\* 646-668: the user answers y in range mode; FastIHCScraper(...) is built and
\* scrape_parallel_fast(date_list, max_workers) is called (491-499)
MainScrapeRange ==
    /\ mpos = "dates"
    /\ dr_pos = "done"
    /\ config.mode = "range"
    /\ confirm' = "y"
    /\ mpos' = "scrape"
    /\ dates' = date_list
    /\ max_cases' = 0
    /\ task' = [t \in 1..Len(date_list) |-> NewTask]
    /\ browser' = [t \in 1..Len(date_list) |-> NoBrowser]
    /\ portal' = [t \in 1..Len(date_list) |-> ParPortal(t)]
    /\ faultsLeft' = [t \in 1..Len(date_list) |-> IF t = 1 THEN 1 ELSE 0]
    /\ hist' = [t \in 1..Len(date_list) |-> NoHist]
    /\ max_workers' = config.max_workers
    /\ ppc' = "submit"
    /\ submitted' = 0
    /\ order' = <<>>
    /\ all_cases' = <<>>
    /\ completed_dates' = 0
    /\ UNCHANGED <<results_lock, self_all_cases>>
    /\ UNCHANGED <<config, m_cases, files, m_result>>
    /\ UNCHANGED <<dateVars, testVars, unitVars>>

\* 672, 689-690: the branch taken on the accumulated records
AfterScrape(cs) == IF cs # <<>> THEN "save" ELSE "done"

\* 666, 670-672: scrape_single_date_fast has returned
MainScrapedSingle ==
    /\ mpos = "scrape"
    /\ config.mode = "single"
    /\ task[1].pc = "returned"
    /\ m_cases' = task[1].ret
    /\ mpos' = AfterScrape(task[1].ret)
    /\ m_result' = IF AfterScrape(task[1].ret) = "done" THEN "no cases" ELSE m_result
    /\ UNCHANGED <<config, confirm, files>>
    /\ UNCHANGED <<dateVars, taskVars, poolVars>>
    /\ UNCHANGED <<testVars, unitVars>>

\* 668, 670-672: scrape_parallel_fast has returned
MainScrapedRange ==
    /\ mpos = "scrape"
    /\ config.mode = "range"
    /\ ppc = "done"
    /\ m_cases' = all_cases
    /\ mpos' = AfterScrape(all_cases)
    /\ m_result' = IF AfterScrape(all_cases) = "done" THEN "no cases" ELSE m_result
    /\ UNCHANGED <<config, confirm, files>>
    /\ UNCHANGED <<dateVars, taskVars, poolVars>>
    /\ UNCHANGED <<testVars, unitVars>>

\* dt.strftime("%d/%m/%Y")
StrftimeSlash(dt) == <<dt.d, "/", dt.m, "/", dt.y>>

\* save_results 613-630: output_data
OutputDataDropsLast(cs, cfg) ==
    [scrape_config |->
        [mode |-> cfg.mode, start_date |-> cfg.start_date,
         end_date |-> IF cfg.mode = "range" THEN StrftimeSlash(MainToday)
                      ELSE cfg.single_date,
         max_workers |-> cfg.max_workers, batch_size |-> cfg.batch_size,
         total_cases |-> Len(cs)],
     Cases |-> SubSeq(cs, 1, Len(cs) - 1)]

OutputData(cs, cfg) ==
    [scrape_config |->
        [mode |-> cfg.mode, start_date |-> cfg.start_date,
         end_date |-> IF cfg.mode = "range" THEN StrftimeSlash(MainToday)
                      ELSE cfg.single_date,
         max_workers |-> cfg.max_workers, batch_size |-> cfg.batch_size,
         total_cases |-> Len(cs)],
     Cases |-> cs]

\* 673-688, save_results 602-636: the file is written and its path returned
SaveResults ==
    /\ mpos = "save"
    /\ files' = files \cup {OutputData(m_cases, config)}
    /\ m_result' = "saved"
    /\ mpos' = "done"
    /\ UNCHANGED <<config, confirm, m_cases>>
    /\ UNCHANGED <<dateVars, taskVars, poolVars>>
    /\ UNCHANGED <<testVars, unitVars>>

\* save_results 632-639: open or json.dump raises; the error is logged, None is
\* returned and main prints nothing more (674).  No complete file exists.
SaveResultsWriteFails ==
    /\ mpos = "save"
    /\ m_result' = "write failed"
    /\ mpos' = "done"
    /\ UNCHANGED <<config, confirm, m_cases, files>>
    /\ UNCHANGED <<dateVars, taskVars, poolVars>>
    /\ UNCHANGED <<testVars, unitVars>>

\* save_results 610: os.makedirs raises, outside the try of save_results; the
\* except clause of main prints the error (694-695)
SaveResultsMkdirFails ==
    /\ mpos = "save"
    /\ m_result' = "error"
    /\ mpos' = "done"
    /\ UNCHANGED <<config, confirm, m_cases, files>>
    /\ UNCHANGED <<dateVars, taskVars, poolVars>>
    /\ UNCHANGED <<testVars, unitVars>>

Next ==
    \/ MainInput
    \/ GetDateRangeSingle
    \/ GetDateRangeBegin
    \/ GetDateRangeLoop
    \/ GetDateRangeReturn
    \/ MainDecline
    \/ MainScrapeSingle
    \/ MainScrapeRange
    \/ Submit
    \/ SubmitDone
    \/ \E t \in Tasks : Start(t)
    \/ \E t \in Tasks : SetupChrome(t)
    \/ \E t \in Tasks : SetupChromeRaise(t)
    \/ \E t \in Tasks : SetupTimeouts(t)
    \/ \E t \in Tasks : SetupTimeoutsRaise(t)
    \/ \E t \in Tasks : NavStep(t)
    \/ \E t \in Tasks : NavRaise(t)
    \/ \E t \in Tasks : ExtractPage(t)
    \/ \E t \in Tasks : ExtractPageRaise(t)
    \/ \E t \in Tasks : HasNextDisabled(t)
    \/ \E t \in Tasks : HasNextClick(t)
    \/ \E t \in Tasks : HasNextRaise(t)
    \/ \E t \in Tasks : HasNextClickRaise(t)
    \/ \E t \in Tasks : Finally(t)
    \/ \E t \in Tasks : Collect(t)
    \/ ParReturn
    \/ MainScrapedSingle
    \/ MainScrapedRange
    \/ SaveResults
    \/ SaveResultsWriteFails
    \/ SaveResultsMkdirFails

(***************************************************************************)
(* scraper_testing.py.  A table row as extract_case_details (23-116) sees  *)
(* it: the texts of its cells, whether it has a Details button, whether    *)
(* find_elements on it raises.                                             *)
(***************************************************************************)
MaxTRows == 2
TNavSteps == 5

\* str.strip() on the cell texts of the model
Strip(x) == IF x \in {" ", "  "} THEN "" ELSE x

\* extract_detailed_info 179-212: the default entries where none were found
WithDetailDefaults(c) ==
    [c EXCEPT !.Orders = IF @ = <<>> THEN DefaultOrders(c) ELSE @,
              !.Comments = IF @ = <<>> THEN DefaultComments(c) ELSE @,
              !.CMs = IF @ = <<>> THEN DefaultCMs ELSE @]

\* 71-88: the fields read from the cells.  Reading the text of a cell is a
\* call to the browser that can raise (the element went stale): raises_at = k,
\* k in 2..7, says that the read of the k-th cell raises; the statements
\* before it have taken effect, the later ones are skipped (113-114).
CellFields(row, c) ==
    LET cells == row.cells
        n == Len(cells)
        ok(k) == row.raises_at = 0 \/ row.raises_at > k
        c2 == IF ok(2) THEN [c EXCEPT !.Institution_Date = Strip(cells[2])]
              ELSE c
        c3 == IF ok(3) THEN [c2 EXCEPT !.Case_No = Strip(cells[3])] ELSE c2
        c4 == IF ok(4) THEN [c3 EXCEPT !.Case_Title = Strip(cells[4])] ELSE c3
        bench == IF Strip(cells[5]) # "" /\ Strip(cells[5]) # NA
                 THEN <<Strip(cells[5])>> ELSE <<>>
        c5 == IF ok(5)
              THEN [c4 EXCEPT !.Bench = bench,
                              !.Details.Case_No = c4.Case_No,
                              !.Details.Case_Title = c4.Case_Title,
                              !.Details.Before_Bench = bench]
              ELSE c4
        c6 == IF n >= 6 /\ ok(6)
              THEN [c5 EXCEPT !.Hearing_Date = Strip(cells[6]),
                              !.Details.Hearing_Date = Strip(cells[6])]
              ELSE c5
    IN IF n >= 7 /\ ok(7)
       THEN [c6 EXCEPT !.Status = Strip(cells[7]),
                       !.Details.Case_Status = Strip(cells[7])]
       ELSE c6

\* a read of a cell raised inside 71-88
CellReadRaised(row) ==
    /\ Len(row.cells) >= 5
    /\ row.raises_at \in 2..Min(Len(row.cells), 7)

\* 90-111: the Details button, where the row has one
DetailsButton(row, c) == IF row.button THEN WithDetailDefaults(c) ELSE c

\* extract_case_details: case_data is returned on every path; raises_at = 1
\* says that find_elements (70) raises
extract_case_details(row, sr_number) ==
    LET c0 == DefaultCase(sr_number, NA)
    IN IF row.raises_at = 1 THEN c0                      \* 113-116
       ELSE IF Len(row.cells) < 5 THEN DetailsButton(row, c0)
       ELSE IF CellReadRaised(row) THEN CellFields(row, c0)
       ELSE DetailsButton(row, CellFields(row, c0))

\* the rows of the results table in the runs of the model
TScrapeRows ==
    { [cells |-> <<"1", "12/11/2020", "W.P. 1/2020", "A VS B", "Justice A",
                   "01-01-2021", "Pending">>, button |-> TRUE, raises_at |-> 0],
      [cells |-> <<"2", "12/11/2020", " ", "A VS B", "N/A", "", "Pending">>,
       button |-> FALSE, raises_at |-> 0],
      [cells |-> <<"3", "12/11/2020", "W.P. 2/2020">>,
       button |-> FALSE, raises_at |-> 0],
      [cells |-> <<>>, button |-> FALSE, raises_at |-> 1] }

(***************************************************************************)
(* scrape_ihc_cases (219-367).  Positions: "chrome" (229), "script" (230), *)
(* "nav" (239-268), "poll" (273-307), "rows" (310-312), "loop" (314-320),  *)
(* "except" (339-343), "partial" (345-361), "finally" (363-365),           *)
(* "returned", "raised".  The navigation steps, counted in tbrowser.nav:   *)
(* 1 driver.get (239), 2 advanced search clicked (244-246), 3 date entered *)
(* (251-253), 4 search clicked (259-261), 5 tblCases present (268).        *)
(***************************************************************************)
OutputFile == "ihc_cases.json"
PartialFile == "partial_ihc_cases.json"

TFinished == {"returned", "raised"}

InitTesting ==
    /\ tpc = "chrome"
    /\ tbrowser = [state |-> "none", nav |-> 0]
    /\ t_n = 0
    /\ t_all_cases = <<>>
    /\ t_files = {}
    /\ t_exc = FALSE
    /\ t_ret = 0

IdleTesting ==
    /\ tpc = "idle"
    /\ tbrowser = [state |-> "none", nav |-> 0]
    /\ t_n = 0
    /\ t_all_cases = <<>>
    /\ t_files = {}
    /\ t_exc = FALSE
    /\ t_ret = 0

\* 229: webdriver.Chrome(options=options) starts a browser
T_Chrome ==
    /\ tpc = "chrome"
    /\ tbrowser' = [tbrowser EXCEPT !.state = "open"]
    /\ tpc' = "script"
    /\ UNCHANGED <<t_n, t_all_cases, t_files, t_exc, t_ret>>
    /\ UNCHANGED notTestVars

\* 229 raises: no browser; the exception leaves the function
T_ChromeRaise ==
    /\ tpc = "chrome"
    /\ tpc' = "raised"
    /\ t_exc' = TRUE
    /\ UNCHANGED <<tbrowser, t_n, t_all_cases, t_files, t_ret>>
    /\ UNCHANGED notTestVars

\* 230-233: execute_script, the wait, all_cases = []
T_Script ==
    /\ tpc = "script"
    /\ tpc' = "nav"
    /\ t_all_cases' = <<>>
    /\ UNCHANGED <<tbrowser, t_n, t_files, t_exc, t_ret>>
    /\ UNCHANGED notTestVars

\* 230 raises, before the try statement: the exception leaves the function
T_ScriptRaise ==
    /\ tpc = "script"
    /\ tpc' = "raised"
    /\ t_exc' = TRUE
    /\ UNCHANGED <<tbrowser, t_n, t_all_cases, t_files, t_ret>>
    /\ UNCHANGED notTestVars

\* 239-268: the next navigation step succeeds
T_NavStep ==
    /\ tpc = "nav"
    /\ tbrowser.nav < TNavSteps
    /\ tbrowser' = [tbrowser EXCEPT !.nav = @ + 1]
    /\ tpc' = IF tbrowser.nav + 1 = TNavSteps THEN "poll" ELSE "nav"
    /\ UNCHANGED <<t_n, t_all_cases, t_files, t_exc, t_ret>>
    /\ UNCHANGED notTestVars

\* 239-268: the next navigation step raises; 339
T_NavRaise ==
    /\ tpc = "nav"
    /\ tbrowser.nav < TNavSteps
    /\ tpc' = "except"
    /\ UNCHANGED <<tbrowser, t_n, t_all_cases, t_files, t_exc, t_ret>>
    /\ UNCHANGED notTestVars

\* 298-304: check_for_data_rows finds data, or it does not within 60 seconds
\* and the screenshot is taken (305-307): the rows are extracted anyway
T_Poll ==
    /\ tpc = "poll"
    /\ tpc' = "rows"
    /\ UNCHANGED <<tbrowser, t_n, t_all_cases, t_files, t_exc, t_ret>>
    /\ UNCHANGED notTestVars

\* 307: driver.save_screenshot raises; 339
T_PollRaise ==
    /\ tpc = "poll"
    /\ tpc' = "except"
    /\ UNCHANGED <<tbrowser, t_n, t_all_cases, t_files, t_exc, t_ret>>
    /\ UNCHANGED notTestVars

\* 310-312: the rows of the table, without the header row
T_Rows ==
    /\ tpc = "rows"
    /\ t_n' \in 0..MaxTRows
    /\ tpc' = "loop"
    /\ UNCHANGED <<tbrowser, t_all_cases, t_files, t_exc, t_ret>>
    /\ UNCHANGED notTestVars

\* 310-311 raise; 339
T_RowsRaise ==
    /\ tpc = "rows"
    /\ tpc' = "except"
    /\ UNCHANGED <<tbrowser, t_n, t_all_cases, t_files, t_exc, t_ret>>
    /\ UNCHANGED notTestVars

\* 314-320: one iteration of the loop over rows; i counts from 1
T_Row ==
    /\ tpc = "loop"
    /\ Len(t_all_cases) < t_n
    /\ \E row \in TScrapeRows :
          t_all_cases' =
             Append(t_all_cases, extract_case_details(row, Len(t_all_cases) + 1))
    /\ UNCHANGED <<tpc, tbrowser, t_n, t_files, t_exc, t_ret>>
    /\ UNCHANGED notTestVars

\* 323-331: final_data
FinalData(cs) ==
    [metadata |-> [search_date |-> "12/11/2020", total_cases |-> Len(cs)],
     Cases |-> cs]

\* 347-356: partial_data
PartialData(cs) ==
    [metadata |-> [search_date |-> "12/11/2020", total_cases |-> Len(cs),
                   status |-> "partial_extraction_due_to_error"],
     Cases |-> cs]

\* 322-337: the loop is over, the file is written
T_Save ==
    /\ tpc = "loop"
    /\ Len(t_all_cases) = t_n
    /\ t_files' = t_files \cup {[name |-> OutputFile, data |-> FinalData(t_all_cases)]}
    /\ tpc' = "finally"
    /\ UNCHANGED <<tbrowser, t_n, t_all_cases, t_exc, t_ret>>
    /\ UNCHANGED notTestVars

\* 334-335 raise (open, json.dump); 339
T_SaveRaise ==
    /\ tpc = "loop"
    /\ Len(t_all_cases) = t_n
    /\ tpc' = "except"
    /\ UNCHANGED <<tbrowser, t_n, t_all_cases, t_files, t_exc, t_ret>>
    /\ UNCHANGED notTestVars

\* 340-343: the error is logged and the screenshot taken
T_Except ==
    /\ tpc = "except"
    /\ tpc' = "partial"
    /\ UNCHANGED <<tbrowser, t_n, t_all_cases, t_files, t_exc, t_ret>>
    /\ UNCHANGED notTestVars

\* 343: driver.save_screenshot raises inside the except clause; 363
T_ExceptRaise ==
    /\ tpc = "except"
    /\ tpc' = "finally"
    /\ t_exc' = TRUE
    /\ UNCHANGED <<tbrowser, t_n, t_all_cases, t_files, t_ret>>
    /\ UNCHANGED notTestVars

\* 345-361: the partial results are saved if any were collected
T_Partial ==
    /\ tpc = "partial"
    /\ t_files' =
          IF t_all_cases # <<>>
          THEN t_files \cup {[name |-> PartialFile, data |-> PartialData(t_all_cases)]}
          ELSE t_files
    /\ tpc' = "finally"
    /\ UNCHANGED <<tbrowser, t_n, t_all_cases, t_exc, t_ret>>
    /\ UNCHANGED notTestVars

\* 359-360 raise (open, json.dump) inside the except clause; 363
T_PartialRaise ==
    /\ tpc = "partial"
    /\ t_all_cases # <<>>
    /\ tpc' = "finally"
    /\ t_exc' = TRUE
    /\ UNCHANGED <<tbrowser, t_n, t_all_cases, t_files, t_ret>>
    /\ UNCHANGED notTestVars

\* 363-367: the finally clause quits the browser; the function returns
\* len(all_cases), or the propagating exception leaves it
T_Finally ==
    /\ tpc = "finally"
    /\ tbrowser' = [state |-> "quit", nav |-> 0]
    /\ tpc' = IF t_exc THEN "raised" ELSE "returned"
    /\ t_ret' = IF t_exc THEN t_ret ELSE Len(t_all_cases)
    /\ UNCHANGED <<t_n, t_all_cases, t_files, t_exc>>
    /\ UNCHANGED notTestVars

(***************************************************************************)
(* Both scrapers, each run once: scrape_ihc_cases, and one call of         *)
(* scrape_single_date_fast without a limit.                                *)
(***************************************************************************)
InitOneCall ==
    /\ dates = <<1>>
    /\ max_cases = 0
    /\ task = <<[NewTask EXCEPT !.pc = "setup"]>>
    /\ browser = <<NoBrowser>>
    /\ portal = <<ParPortal(1)>>
    /\ faultsLeft = <<1>>
    /\ hist = <<[NoHist EXCEPT !.runs = 1]>>

NextScrapers ==
    \/ \E t \in Tasks : SetupChrome(t)
    \/ \E t \in Tasks : SetupChromeRaise(t)
    \/ \E t \in Tasks : SetupTimeouts(t)
    \/ \E t \in Tasks : SetupTimeoutsRaise(t)
    \/ \E t \in Tasks : NavStep(t)
    \/ \E t \in Tasks : NavRaise(t)
    \/ \E t \in Tasks : ExtractPage(t)
    \/ \E t \in Tasks : ExtractPageRaise(t)
    \/ \E t \in Tasks : HasNextDisabled(t)
    \/ \E t \in Tasks : HasNextClick(t)
    \/ \E t \in Tasks : HasNextRaise(t)
    \/ \E t \in Tasks : HasNextClickRaise(t)
    \/ \E t \in Tasks : Finally(t)
    \/ T_Chrome
    \/ T_ChromeRaise
    \/ T_Script
    \/ T_ScriptRaise
    \/ T_NavStep
    \/ T_NavRaise
    \/ T_Poll
    \/ T_PollRaise
    \/ T_Rows
    \/ T_RowsRaise
    \/ T_Row
    \/ T_Save
    \/ T_SaveRaise
    \/ T_Except
    \/ T_ExceptRaise
    \/ T_Partial
    \/ T_PartialRaise
    \/ T_Finally

(***************************************************************************)
(* extract_advocate_info_fast (scraper.py 133-196), called for a row whose *)
(* case number cell holds a link (279-284).  awin: whether the original    *)
(* results window and the window the click opened are open, and the window *)
(* the driver is focused on ("none": the focused window was closed).       *)
(* Positions: "call" (135), "click" (139), "handles" (143), "switch"       *)
(* (144-148), "source" (151-180), "finally" (185-187), "close" (189),      *)
(* "back" (190), "done", "raised"; "idle" where no call is made.           *)
(***************************************************************************)
NoSource == [pet |-> "", resp |-> ""]

\* what the first matching counsel pattern captures, "" where none matches
CounselTexts == {"", "Ali Khan", "Nil", "None appeared"}

\* 166, 180: len(counsel) > 3 and none of 'not', 'n/a', 'nil', 'none' in it
AcceptCounsel(c) == c \notin {"", "Nil"} /\ c \notin {"Nil", "None appeared"}

NoAdvocates == [Petitioner |-> NA, Respondent |-> NA]

OpenWindows(w) == (IF w.orig THEN 1 ELSE 0) + (IF w.popup THEN 1 ELSE 0)

InitAdvocate ==
    /\ apc = "call"
    /\ awin = [orig |-> TRUE, popup |-> FALSE, focus |-> "orig"]
    /\ a_source \in [pet : CounselTexts, resp : CounselTexts]
    /\ a_adv = NoAdvocates

IdleAdvocate ==
    /\ apc = "idle"
    /\ awin = [orig |-> TRUE, popup |-> FALSE, focus |-> "orig"]
    /\ a_source = NoSource
    /\ a_adv = NoAdvocates

\* 135: original_window = driver.current_window_handle
A_Start ==
    /\ apc = "call"
    /\ apc' = "click"
    /\ UNCHANGED <<awin, a_source, a_adv, rowVars>>
    /\ UNCHANGED <<dateVars, taskVars, poolVars, mainVars, testVars>>

\* 135 raises, before the try statement: the exception goes to the caller
A_StartRaise ==
    /\ apc = "call"
    /\ apc' = "raised"
    /\ UNCHANGED <<awin, a_source, a_adv, rowVars>>
    /\ UNCHANGED <<dateVars, taskVars, poolVars, mainVars, testVars>>

\* 139-140: the click opens the case in a new window
A_ClickPopup ==
    /\ apc = "click"
    /\ awin' = [awin EXCEPT !.popup = TRUE]
    /\ apc' = "handles"
    /\ UNCHANGED <<a_source, a_adv, rowVars>>
    /\ UNCHANGED <<dateVars, taskVars, poolVars, mainVars, testVars>>

\* 139-140: the click opens no new window
A_ClickNoWindow ==
    /\ apc = "click"
    /\ apc' = "handles"
    /\ UNCHANGED <<awin, a_source, a_adv, rowVars>>
    /\ UNCHANGED <<dateVars, taskVars, poolVars, mainVars, testVars>>

\* 139 raises, with or without the click having opened the window; 182-183
A_ClickRaise ==
    /\ apc = "click"
    /\ \E opened \in BOOLEAN : awin' = [awin EXCEPT !.popup = opened]
    /\ apc' = "finally"
    /\ UNCHANGED <<a_source, a_adv, rowVars>>
    /\ UNCHANGED <<dateVars, taskVars, poolVars, mainVars, testVars>>

\* 143-144: windows = driver.window_handles; if len(windows) > 1
A_Handles ==
    /\ apc = "handles"
    /\ apc' = IF OpenWindows(awin) > 1 THEN "switch" ELSE "source"
    /\ UNCHANGED <<awin, a_source, a_adv, rowVars>>
    /\ UNCHANGED <<dateVars, taskVars, poolVars, mainVars, testVars>>

\* 143 raises; 182-183
A_HandlesRaise ==
    /\ apc = "handles"
    /\ apc' = "finally"
    /\ UNCHANGED <<awin, a_source, a_adv, rowVars>>
    /\ UNCHANGED <<dateVars, taskVars, poolVars, mainVars, testVars>>

\* 145-148: the driver switches to the window that is not the original
A_Switch ==
    /\ apc = "switch"
    /\ awin' = [awin EXCEPT !.focus = "popup"]
    /\ apc' = "source"
    /\ UNCHANGED <<a_source, a_adv, rowVars>>
    /\ UNCHANGED <<dateVars, taskVars, poolVars, mainVars, testVars>>

\* 147 raises; 182-183
A_SwitchRaise ==
    /\ apc = "switch"
    /\ apc' = "finally"
    /\ UNCHANGED <<awin, a_source, a_adv, rowVars>>
    /\ UNCHANGED <<dateVars, taskVars, poolVars, mainVars, testVars>>

\* 154-180 on the page source of the focused window
Advocates(src, adv) ==
    [adv EXCEPT !.Petitioner = IF AcceptCounsel(src.pet) THEN src.pet ELSE @,
                !.Respondent = IF AcceptCounsel(src.resp) THEN src.resp ELSE @]

\* 151-180: the page source is read and searched for the counsel
A_Source ==
    /\ apc = "source"
    /\ a_adv' = Advocates(IF awin.focus = "popup" THEN a_source ELSE NoSource,
                          a_adv)
    /\ apc' = "finally"
    /\ UNCHANGED <<awin, a_source, rowVars>>
    /\ UNCHANGED <<dateVars, taskVars, poolVars, mainVars, testVars>>

\* 151 raises; 182-183
A_SourceRaise ==
    /\ apc = "source"
    /\ apc' = "finally"
    /\ UNCHANGED <<awin, a_source, a_adv, rowVars>>
    /\ UNCHANGED <<dateVars, taskVars, poolVars, mainVars, testVars>>

\* 187-188: windows = driver.window_handles; if len(windows) > 1
A_FinHandles ==
    /\ apc = "finally"
    /\ apc' = IF OpenWindows(awin) > 1 THEN "close" ELSE "done"
    /\ UNCHANGED <<awin, a_source, a_adv, rowVars>>
    /\ UNCHANGED <<dateVars, taskVars, poolVars, mainVars, testVars>>

\* 187 raises; 192-193 pass
A_FinHandlesRaise ==
    /\ apc = "finally"
    /\ apc' = "done"
    /\ UNCHANGED <<awin, a_source, a_adv, rowVars>>
    /\ UNCHANGED <<dateVars, taskVars, poolVars, mainVars, testVars>>

\* driver.close() closes the window the driver is focused on
CloseFocused(w) ==
    IF w.focus = "popup" THEN [w EXCEPT !.popup = FALSE, !.focus = "none"]
    ELSE IF w.focus = "orig" THEN [w EXCEPT !.orig = FALSE, !.focus = "none"]
    ELSE w

\* 189: driver.close()
A_Close ==
    /\ apc = "close"
    /\ awin' = CloseFocused(awin)
    /\ apc' = "back"
    /\ UNCHANGED <<a_source, a_adv, rowVars>>
    /\ UNCHANGED <<dateVars, taskVars, poolVars, mainVars, testVars>>

\* 189 raises; 192-193 pass
A_CloseRaise ==
    /\ apc = "close"
    /\ apc' = "done"
    /\ UNCHANGED <<awin, a_source, a_adv, rowVars>>
    /\ UNCHANGED <<dateVars, taskVars, poolVars, mainVars, testVars>>

\* 190: driver.switch_to.window(original_window), possible while it is open
A_Back ==
    /\ apc = "back"
    /\ awin.orig
    /\ awin' = [awin EXCEPT !.focus = "orig"]
    /\ apc' = "done"
    /\ UNCHANGED <<a_source, a_adv, rowVars>>
    /\ UNCHANGED <<dateVars, taskVars, poolVars, mainVars, testVars>>

\* 190 raises (always when the original window is closed); 192-193 pass
A_BackRaise ==
    /\ apc = "back"
    /\ apc' = "done"
    /\ UNCHANGED <<awin, a_source, a_adv, rowVars>>
    /\ UNCHANGED <<dateVars, taskVars, poolVars, mainVars, testVars>>

NextAdvocate ==
    \/ A_Start
    \/ A_StartRaise
    \/ A_ClickPopup
    \/ A_ClickNoWindow
    \/ A_ClickRaise
    \/ A_Handles
    \/ A_HandlesRaise
    \/ A_Switch
    \/ A_SwitchRaise
    \/ A_Source
    \/ A_SourceRaise
    \/ A_FinHandles
    \/ A_FinHandlesRaise
    \/ A_Close
    \/ A_CloseRaise
    \/ A_Back
    \/ A_BackRaise

(***************************************************************************)
(* One call of extract_cases_from_page_fast (scraper.py 360-403) on a page *)
(* of given rows, or of extract_case_details (scraper_testing.py 23-116)   *)
(* on a given row.  r_pc: "fast", "testing" before the call; "done_fast",  *)
(* "failed_fast" (the page-level except clause 401-403 was taken),         *)
(* "done_testing" after it.                                                *)
(***************************************************************************)
MaxRRows == 2

\* rows of tblCases as extract_table_row_data_fast sees them
FastRowSamples ==
    LET ok == KindRow("ok", <<1, 0>>)
    IN { ok,
         KindRow("none", <<1, 0>>),
         KindRow("filtered", <<1, 0>>),
         [ok EXCEPT !.header = TRUE],
         [ok EXCEPT !.raises = TRUE],
         [ok EXCEPT !.title = "", !.bench = <<>>, !.hearing = "", !.status = ""],
         [ok EXCEPT !.status = "DISPOSED"] }

FastPages ==
    UNION { [1..n -> FastRowSamples] : n \in 1..MaxRRows }

\* rows of tblCases as extract_case_details sees them
TRowInputs ==
    { [cells |-> SubSeq(<<"1", "12/11/2020", cn, "A VS B", b, h, st>>, 1, n),
       button |-> bt, raises_at |-> r] :
         cn \in {"W.P. 1/2020", " "}, b \in {"Justice A", "N/A", ""},
         h \in {"01-01-2021", ""}, st \in {"Pending", ""},
         n \in {3, 5, 6, 7}, bt \in BOOLEAN, r \in 0..7 }

InitRows ==
    \/ /\ r_pc = "fast"
       /\ \E pg \in FastPages :
             r_rows = [i \in 1..Len(pg) |-> [pg[i] EXCEPT !.src = <<1, i>>]]
       /\ r_args \in [starting_sr : {1, 5}, max_cases_per_page : 0..MaxRRows]
       /\ r_out = <<>>
    \/ /\ r_pc = "testing"
       /\ \E row \in TRowInputs : r_rows = <<row>>
       /\ r_args \in [starting_sr : {1, 5}, max_cases_per_page : {0}]
       /\ r_out = <<>>

\* 360-399: the page is extracted
R_Fast ==
    /\ r_pc = "fast"
    /\ r_out' = extract_cases_from_page_fast(r_rows, 1, r_args.starting_sr,
                                             r_args.max_cases_per_page)
    /\ r_pc' = "done_fast"
    /\ UNCHANGED <<r_rows, r_args, advVars>>
    /\ UNCHANGED <<dateVars, taskVars, poolVars, mainVars, testVars>>

\* 364-378 raise (the wait for tblCases, find_elements on the table or on a
\* row): 401-403 return cases, to which nothing was appended yet
R_FastPageRaise ==
    /\ r_pc = "fast"
    /\ r_out' = <<>>
    /\ r_pc' = "failed_fast"
    /\ UNCHANGED <<r_rows, r_args, advVars>>
    /\ UNCHANGED <<dateVars, taskVars, poolVars, mainVars, testVars>>

\* scraper_testing.py 316-317: extract_case_details(driver, row, i)
R_Testing ==
    /\ r_pc = "testing"
    /\ r_out' = <<extract_case_details(r_rows[1], r_args.starting_sr)>>
    /\ r_pc' = "done_testing"
    /\ UNCHANGED <<r_rows, r_args, advVars>>
    /\ UNCHANGED <<dateVars, taskVars, poolVars, mainVars, testVars>>

NextRows ==
    \/ R_Fast
    \/ R_FastPageRaise
    \/ R_Testing

IdleRows ==
    /\ r_pc = "idle"
    /\ r_rows = <<>>
    /\ r_args = [starting_sr |-> 1, max_cases_per_page |-> 0]
    /\ r_out = <<>>

IdleUnits == IdleAdvocate /\ IdleRows

InitSpecDates ==
    InitDates /\ IdleTasks /\ IdlePool /\ IdleMain /\ IdleTesting /\ IdleUnits

SpecDates == InitSpecDates /\ [][NextDates]_vars

InitSpecSingle ==
    /\ InitSingle /\ InitDatesIdle /\ IdlePool /\ IdleMain /\ IdleTesting
    /\ IdleUnits

SpecSingle == InitSpecSingle /\ [][NextSingle]_vars

\* One call of scrape_single_date_fast on a date of 49 to 51 pages whose
\* page extractions succeed, or on a date of two pages one of whose
\* extractions may raise; without a limit or with the limit of main.
InitSpecLoop ==
    /\ dates = <<1>>
    /\ \E po \in BigPortals \cup {ParPortal(1)} :
          /\ portal = <<po>>
          /\ faultsLeft = <<IF po \in BigPortals THEN 0 ELSE 1>>
    /\ max_cases \in {0, MainMaxCases}
    /\ task = <<[NewTask EXCEPT !.pc = "setup"]>>
    /\ browser = <<NoBrowser>>
    /\ hist = <<[NoHist EXCEPT !.runs = 1]>>
    /\ InitDatesIdle /\ IdlePool /\ IdleMain /\ IdleTesting /\ IdleUnits

\* the thread that runs the call keeps running: every webdriver call and
\* every wait returns or raises within its timeout (15 s waits, 20 s page
\* load), so a step that is possible is eventually taken
SpecLoopFair == InitSpecLoop /\ [][NextSingle]_vars /\ WF_vars(NextSingle)

InitSpecPar ==
    InitPar /\ InitDatesIdle /\ IdleMain /\ IdleTesting /\ IdleUnits

SpecPar == InitSpecPar /\ [][NextPar]_vars

\* the program scraper.py: main from its start
Init ==
    /\ InitMain /\ InitDatesIdle /\ IdleTasks /\ IdlePool /\ IdleTesting
    /\ IdleUnits

Spec == Init /\ [][Next]_vars

InitSpecScrapers ==
    /\ InitOneCall /\ InitTesting /\ InitDatesIdle /\ IdlePool /\ IdleMain
    /\ IdleUnits

SpecScrapers == InitSpecScrapers /\ [][NextScrapers]_vars

\* one call of extract_advocate_info_fast
InitSpecAdvocate ==
    /\ InitAdvocate /\ IdleRows
    /\ InitDatesIdle /\ IdleTasks /\ IdlePool /\ IdleMain /\ IdleTesting

SpecAdvocate == InitSpecAdvocate /\ [][NextAdvocate]_vars

\* one call of a page or row extractor
InitSpecRows ==
    /\ InitRows /\ IdleAdvocate
    /\ InitDatesIdle /\ IdleTasks /\ IdlePool /\ IdleMain /\ IdleTesting

SpecRows == InitSpecRows /\ [][NextRows]_vars

(***************************************************************************)
(* C1: get_date_range(start, mode='range') returns exactly the calendar    *)
(* days from the start date to today's date, one entry per day, ascending, *)
(* no gap and no duplicate; it is empty when start is after today.         *)
(***************************************************************************)
OutDayNumber(s) == DayNumber(s[5], s[3], s[1])

WellFormedOut(s) ==
    Len(s) = 5 /\ s[2] = "-" /\ s[4] = "-" /\ ValidDate(s[5], s[3], s[1])

C1_DateRangeExact ==
    (dr_pos = "done" /\ dr_mode = "range") =>
        LET s == DayNumberOf(Strptime(dr_start))
            e == DayNumberOf(dr_now)
        IN /\ Len(date_list) = (IF s <= e THEN e - s + 1 ELSE 0)
           /\ \A i \in 1..Len(date_list) :
                 /\ WellFormedOut(date_list[i])
                 /\ OutDayNumber(date_list[i]) = s + i - 1

\* a range that crosses the end of February of a leap year has been returned
C1_Witness ==
    /\ dr_pos = "done" /\ dr_mode = "range"
    /\ Len(date_list) >= 3
    /\ date_list[1] = <<28, "-", 2, "-", 2024>>
    /\ date_list[Len(date_list)] = <<1, "-", 3, "-", 2024>>

(***************************************************************************)
(* C2 as stated: in a call with no case limit whose loop has ended, cases  *)
(* were extracted from every one of the pages 1..N of the date, in page    *)
(* order, and the loop stopped on a next control seen disabled.            *)
(***************************************************************************)
LoopEnded(t) ==
    task[t].pc = "returned" /\ task[t].stop \notin {NONE, "error"}

InPageOrder(t) == \A i \in 1..Len(hist[t].visited) : hist[t].visited[i] = i

RECURSIVE OkRowsFrom(_, _)
OkRowsFrom(rows, j) ==
    IF j > Len(rows) THEN <<>>
    ELSE IF rows[j] = "ok" THEN <<j>> \o OkRowsFrom(rows, j + 1)
    ELSE OkRowsFrom(rows, j + 1)

RECURSIVE ExpectedRows(_, _, _, _)
ExpectedRows(po, p, k, failed) ==
    IF p > k THEN <<>>
    ELSE LET js == IF p \in failed THEN <<>> ELSE OkRowsFrom(PageKinds(po, p), 1)
         IN [i \in 1..Len(js) |-> <<p, js[i]>>] \o ExpectedRows(po, p + 1, k, failed)

PageRowOf(recs) == [i \in 1..Len(recs) |-> recs[i].src]

C3_WritesHoldLock ==
    [][all_cases' # all_cases => results_lock = "held"]_vars

(***************************************************************************)
(* C3 amended: the concurrently running date-scrapes share no mutable      *)
(* state at all.  The results list is a local of scrape_parallel_fast that *)
(* is written by the calling thread alone, in its as_completed loop and by *)
(* no step of a worker; results_lock is never acquired and self.all_cases  *)
(* is never written.                                                       *)
(***************************************************************************)
C3_SingleWriterNoLock ==
    /\ [](results_lock = "free" /\ self_all_cases = <<>>)
    /\ [][all_cases' # all_cases => (ppc = "collect" /\ task' = task)]_vars

\* the results list holds records while another date-scrape is still running
C3_Witness ==
    /\ ppc = "collect"
    /\ all_cases # <<>>
    /\ \E t \in Tasks : task[t].pc \in {"nav", "extract", "next"}

(***************************************************************************)
(* C4: scrape_parallel_fast scrapes every date of date_list exactly once   *)
(* and returns exactly the records the date-scrapes returned: the          *)
(* concatenation of the per-date lists in the order the calls completed,   *)
(* each date's records contiguous and in page order, none lost, none       *)
(* duplicated.                                                             *)
(***************************************************************************)
RECURSIVE ConcatRets(_, _)
ConcatRets(ord, i) ==
    IF i > Len(ord) THEN <<>>
    ELSE (IF task[ord[i]].pc = "returned" THEN task[ord[i]].ret ELSE <<>>)
         \o ConcatRets(ord, i + 1)

RecordsOf(recs, d) ==
    LET OfDate(r) == r.Institution_Date = d IN SelectSeq(recs, OfDate)

Contiguous(recs) ==
    \A i, k \in 1..Len(recs) :
        (i < k /\ recs[i].Institution_Date = recs[k].Institution_Date) =>
            \A j \in i..k : recs[j].Institution_Date = recs[i].Institution_Date

InPageRowOrder(recs) ==
    \A i, k \in 1..Len(recs) :
        (i < k) => \/ recs[i].src[1] < recs[k].src[1]
                   \/ recs[i].src[1] = recs[k].src[1] /\ recs[i].src[2] < recs[k].src[2]

C4_ParallelExact ==
    ppc = "done" =>
        /\ \A t \in Tasks : hist[t].runs = 1 /\ task[t].pc \in Finished
        /\ Len(order) = Len(dates)
        /\ \A t \in Tasks : \E i \in 1..Len(order) : order[i] = t
        /\ all_cases = ConcatRets(order, 1)
        /\ \A t \in Tasks :
              /\ RecordsOf(all_cases, dates[t]) = task[t].ret
              /\ InPageRowOrder(task[t].ret)
        /\ Contiguous(all_cases)

\* two dates that both returned records were collected in the order 2, 1
C4_Witness ==
    /\ ppc = "done"
    /\ Len(order) >= 2 /\ order[1] = 2 /\ order[2] = 1
    /\ Len(task[1].ret) >= 2
    /\ Len(task[2].ret) >= 1

(***************************************************************************)
(* C5 as stated: the number of browser instances open at the same time     *)
(* never exceeds max_workers.                                              *)
(***************************************************************************)
OpenBrowsers == { t \in Tasks : browser[t].state = "open" }

C5_OpenBrowsersBounded == Cardinality(OpenBrowsers) <= max_workers

C6_BrowsersQuit ==
    /\ \A t \in Tasks : task[t].pc \in Finished => browser[t].state # "open"
    /\ tpc \in TFinished => tbrowser.state # "open"

CaseKeys ==
    {"Sr", "Case_No", "Case_Title", "Bench", "Hearing_Date", "Status",
     "Orders", "Comments", "CMs", "Details"}

PlaceholderFields == {"Case_No", "Case_Title", "Hearing_Date", "Status"}

WellFormedCase(r) ==
    /\ CaseKeys \subseteq DOMAIN r
    /\ \A f \in PlaceholderFields : r[f] # ""
    /\ \A i \in 1..Len(r.Bench) : r.Bench[i] \notin {"", NA}

C9_KeysAndPlaceholders ==
    /\ \A t \in Tasks : \A i \in 1..Len(task[t].cases) :
          WellFormedCase(task[t].cases[i])
    /\ \A i \in 1..Len(t_all_cases) : WellFormedCase(t_all_cases[i])

(***************************************************************************)
(* C10: in both scrapers the navigation steps happen one after the other   *)
(* in their fixed order; rows are extracted and the next control is        *)
(* clicked only after all of them succeeded, the last being the detection  *)
(* of the results table; after a step that raised no further navigation    *)
(* step, extraction or next click happens for that date.                   *)
(***************************************************************************)
Extracts(t) == hist'[t].visited # hist[t].visited \/ task'[t].cases # task[t].cases

ClicksNext(t) == browser[t].shown >= 1 /\ browser'[t].shown > browser[t].shown

AfterTry == {"except", "partial", "finally", "returned", "raised"}

InFlight == { t \in Tasks : task[t].pc \notin ({"new"} \cup Finished) }

C11_BatchBoundsInFlight ==
    (mpos = "scrape" /\ config.mode = "range") =>
        Cardinality(InFlight) <= config.batch_size

(***************************************************************************)
(* C12 as stated: in the list scrape_single_date_fast returns for one date *)
(* the Sr values are pairwise distinct and strictly increasing in list     *)
(* order, across all pages, also when table rows were skipped.             *)
(***************************************************************************)
SrIncreasing(recs) ==
    \A i, j \in 1..Len(recs) : i < j => recs[i].Sr < recs[j].Sr

C12_SrStrictlyIncreasing ==
    \A t \in Tasks : task[t].pc = "returned" => SrIncreasing(task[t].ret)

(***************************************************************************)
(* C13: when max_cases_per_date is given, scrape_single_date_fast never    *)
(* holds or returns more than max_cases_per_date records, and the per-page *)
(* limit it passes to extract_cases_from_page_fast at the top of the loop  *)
(* is a positive number.                                                   *)
(***************************************************************************)
C13_LimitRespected ==
    max_cases # 0 =>
        \A t \in Tasks :
            /\ Len(task[t].cases) <= max_cases
            /\ Len(task[t].ret) <= max_cases
            /\ task[t].total_cases_count = Len(task[t].cases)
            /\ task[t].pc = "extract" => PageLimit(task[t].total_cases_count) > 0

\* the limit cut the second page: it shows two rows with a case number and
\* only one more record was allowed
C13_Witness ==
    \E t \in Tasks :
        /\ task[t].pc = "returned" /\ task[t].stop = "limit"
        /\ max_cases >= 3
        /\ Len(task[t].ret) = max_cases
        /\ hist[t].visited = <<1, 2>>
        /\ PageKinds(portal[t], 1) = <<"ok", "ok">>
        /\ PageKinds(portal[t], 2) = <<"ok", "ok">>

(***************************************************************************)
(* C14: the pagination loop of scrape_single_date_fast always terminates:  *)
(* every call ends; page extraction is attempted on at most 50 pages, and  *)
(* a call stopped by the page cap returns the records of those 50 pages.   *)
(***************************************************************************)
C14_LoopTerminates ==
    /\ [](\A t \in Tasks :
            /\ Len(hist[t].visited) <= MaxPageLimit
            /\ (task[t].pc = "returned" /\ task[t].stop = "cap") =>
                  /\ Len(hist[t].visited) = MaxPageLimit
                  /\ InPageOrder(t)
                  /\ PageRowOf(task[t].ret)
                       = ExpectedRows(portal[t], 1, MaxPageLimit, hist[t].failed))
    /\ <>(\A t \in Tasks : task[t].pc \in Finished)

\* a date of more than 50 pages: the call returned after page 50 with the
\* records of the pages it could extract
C14_Witness ==
    \E t \in Tasks :
        /\ task[t].pc = "returned" /\ task[t].stop = "cap"
        /\ portal[t].n > MaxPageLimit
        /\ Len(task[t].ret) = MaxPageLimit
        /\ browser[t].state = "quit"

(***************************************************************************)
(* C15: a call of has_next_page_fast (a step of a date-scrape at line 455) *)
(* returns True, so that the loop goes on to the next page, only if it     *)
(* clicked the next control; on the last page, where the control is        *)
(* disabled, it returns False and the browser is unchanged; it never       *)
(* raises: where the control cannot be located or used it returns False    *)
(* and the loop ends with the records collected.                           *)
(***************************************************************************)
ReturnedTrue(t) == task'[t].page = task[t].page + 1

C15_HasNextFrame ==
    [][ \A t \in Tasks :
          (task[t].pc = "next" /\ task'[t] # task[t]) =>
             /\ ReturnedTrue(t) => browser'[t].shown = browser[t].shown + 1
             /\ browser[t].shown >= portal[t].n =>
                   (~ReturnedTrue(t) /\ browser'[t] = browser[t])
             /\ task'[t].pc # "raised" /\ task'[t].stop # "error"
             /\ ~ReturnedTrue(t) =>
                   /\ task'[t].pc = "finally"
                   /\ task'[t].stop \in {"disabled", "nextfail"}
                   /\ task'[t].ret = task[t].cases
      ]_vars

\* has_next_page_fast returned True on page 1: the browser shows page 2 and
\* the loop is at the top of its second iteration
C15_Witness ==
    \E t \in Tasks :
        /\ task[t].pc = "extract"
        /\ task[t].page = 2
        /\ browser[t].shown = 2
        /\ portal[t].n >= 2

(***************************************************************************)
(* C16 as stated: extract_advocate_info_fast never closes the original     *)
(* results window, and when it has returned the driver is focused on the   *)
(* original window, which is still open.                                   *)
(***************************************************************************)
C16_OriginalWindowKept ==
    /\ awin.orig
    /\ apc = "done" => awin.focus = "orig"

(***************************************************************************)
(* C17: a table row in which no case number can be located produces no     *)
(* record: every record extract_cases_from_page_fast returns, each made by *)
(* extract_table_row_data_fast, has a Case_No different from "N/A", and    *)
(* comes from a row in which a case number was located.                    *)
(***************************************************************************)
C17_NoRecordWithoutCaseNo ==
    r_pc \in {"done_fast", "failed_fast"} =>
        \A k \in 1..Len(r_out) :
            /\ r_out[k].Case_No \notin {NA, ""}
            /\ r_out[k].src[2] \in 1..Len(r_rows)
            /\ r_rows[r_out[k].src[2]].caseno = r_out[k].Case_No

\* a data row without a case number was processed and gave no record, another
\* row of the page gave one
C17_Witness ==
    /\ r_pc = "done_fast"
    /\ r_args.max_cases_per_page = 0
    /\ \E i \in 1..Len(r_rows) :
          /\ IsDataRow(r_rows[i]) /\ ~r_rows[i].raises /\ r_rows[i].caseno = ""
          /\ \A k \in 1..Len(r_out) : r_out[k].src[2] # i
    /\ Len(r_out) >= 1

(***************************************************************************)
(* C18: extract_cases_from_page_fast skips a row whose extraction raises   *)
(* or yields no record and goes on with the remaining rows: it returns, in *)
(* row order, one record for each of the rows it was to process (the data  *)
(* rows, the first max_cases_per_page of them under a limit) that has a    *)
(* case number and whose extraction did not raise, numbered by its         *)
(* position among the rows to process; if the page-level extraction raises *)
(* it returns the records collected so far, which are none.                *)
(***************************************************************************)
DataRowSet == { i \in 1..Len(r_rows) : r_rows[i].ncells >= 3 /\ ~r_rows[i].header }

ToProcessSet ==
    { i \in DataRowSet :
        \/ r_args.max_cases_per_page = 0
        \/ Cardinality({ j \in DataRowSet : j < i }) < r_args.max_cases_per_page }

KeptSet == { i \in ToProcessSet : ~r_rows[i].raises /\ r_rows[i].caseno # "" }

C18_RowFailureSkipsRow ==
    /\ r_pc = "done_fast" =>
         /\ Len(r_out) = Cardinality(KeptSet)
         /\ \A k \in 1..Len(r_out) :
               /\ r_out[k].src[2] \in KeptSet
               /\ r_out[k].Sr = r_args.starting_sr
                     + Cardinality({ j \in ToProcessSet : j < r_out[k].src[2] })
         /\ \A k, l \in 1..Len(r_out) : k < l => r_out[k].src[2] < r_out[l].src[2]
    /\ r_pc = "failed_fast" => r_out = <<>>

\* the extraction of a row raised and a later row of the page gave a record
C18_Witness ==
    /\ r_pc = "done_fast"
    /\ \E i \in ToProcessSet :
          /\ r_rows[i].raises
          /\ \E k \in 1..Len(r_out) : r_out[k].src[2] > i

(***************************************************************************)
(* C19 as stated: in every record emitted by extract_table_row_data_fast   *)
(* or extract_case_details the Details block mirrors the top-level fields  *)
(* Case_No, Case_Title, Hearing_Date, Status and Bench.                    *)
(***************************************************************************)
Mirrors(r) ==
    /\ r.Details.Case_No = r.Case_No
    /\ r.Details.Case_Title = r.Case_Title
    /\ r.Details.Hearing_Date = r.Hearing_Date
    /\ r.Details.Case_Status = r.Status
    /\ r.Details.Before_Bench = r.Bench

C19_DetailsMirror ==
    r_pc \in {"done_fast", "failed_fast", "done_testing"} =>
        \A k \in 1..Len(r_out) : Mirrors(r_out[k])

(***************************************************************************)
(* C20 as stated: when an error interrupts scrape_ihc_cases inside its try *)
(* statement, the function returns the number of cases collected instead   *)
(* of raising; if at least one case was collected the cases are in the     *)
(* file partial_<output_file> with status                                  *)
(* "partial_extraction_due_to_error" and total_cases equal to their        *)
(* number, and if none was collected no partial file is written.           *)
(***************************************************************************)
Interrupted ==
    /\ tpc \in TFinished
    /\ tbrowser.state = "quit"
    /\ \A f \in t_files : f.name # OutputFile

C20_PartialSaved ==
    Interrupted =>
        /\ tpc = "returned"
        /\ t_ret = Len(t_all_cases)
        /\ IF t_all_cases # <<>>
           THEN \E f \in t_files :
                   /\ f.name = PartialFile
                   /\ f.data.Cases = t_all_cases
                   /\ f.data.metadata.status = "partial_extraction_due_to_error"
                   /\ f.data.metadata.total_cases = Len(t_all_cases)
           ELSE \A f \in t_files : f.name # PartialFile

====
